---- MODULE Spec2Model ----
(***************************************************************************)
(* Model of the ASR result visualizer: the text normalizer, the tokenizer, *)
(* the Wagner-Fischer aligner with its backtracking loop, the metrics      *)
(* report of calculateWER (src/src/lib/wer.ts), and the page component's   *)
(* upload / batch-aggregation handlers (src/unnamed/part_000).             *)
(*                                                                         *)
(* Texts are sequences of one-character strings, tokens are non-empty      *)
(* sequences of characters, rates are exact fractions [num, den].          *)
(***************************************************************************)
EXTENDS Integers, Sequences, FiniteSets, Bags, TLC

(* ------------------------------ bounds -------------------------------- *)

\* Longest token sequence fed to one calculateWER call of Spec.
MaxLen == 3

(* --------------------------- characters ------------------------------- *)

Lowers == <<"a", "b", "c", "d", "e", "f", "g", "h", "i", "j", "k", "l", "m",
            "n", "o", "p", "q", "r", "s", "t", "u", "v", "w", "x", "y", "z">>

Uppers == <<"A", "B", "C", "D", "E", "F", "G", "H", "I", "J", "K", "L", "M",
            "N", "O", "P", "Q", "R", "S", "T", "U", "V", "W", "X", "Y", "Z">>

Digits == {"0", "1", "2", "3", "4", "5", "6", "7", "8", "9"}

\* The characters the regular-expression class \s matches.
Whitespace == {" ", "\t", "\n", "\r"}

\* The characters the class [\wÀ-ɏḀ-ỿ] matches, within
\* the alphabet of the model.
WordChars == {Lowers[k] : k \in DOMAIN Lowers} \cup {Uppers[k] : k \in DOMAIN Uppers}
             \cup Digits \cup {"_"}

\* String.prototype.toLowerCase on one character.
ToLowerChar(c) ==
    IF \E k \in DOMAIN Uppers : Uppers[k] = c
    THEN Lowers[CHOOSE k \in DOMAIN Uppers : Uppers[k] = c]
    ELSE c

toLowerCase(text) == [k \in DOMAIN text |-> ToLowerChar(text[k])]

\* text.replace(/[^\w\sÀ-ɏḀ-ỿ]/g, ' ')
ReplacePunctuation(text) ==
    [k \in DOMAIN text |->
        IF text[k] \in WordChars \cup Whitespace THEN text[k] ELSE " "]

\* text.replace(/\s+/g, ' '): every maximal run of whitespace becomes ' '.
RECURSIVE CollapseSpaces(_)
CollapseSpaces(text) ==
    IF text = <<>> THEN <<>>
    ELSE IF Head(text) \in Whitespace
         THEN IF Len(text) > 1 /\ text[2] \in Whitespace
              THEN CollapseSpaces(Tail(text))
              ELSE <<" ">> \o CollapseSpaces(Tail(text))
         ELSE <<Head(text)>> \o CollapseSpaces(Tail(text))

RECURSIVE TrimStart(_)
TrimStart(text) ==
    IF text # <<>> /\ Head(text) \in Whitespace THEN TrimStart(Tail(text)) ELSE text

RECURSIVE TrimEnd(_)
TrimEnd(text) ==
    IF text # <<>> /\ text[Len(text)] \in Whitespace
    THEN TrimEnd(SubSeq(text, 1, Len(text) - 1))
    ELSE text

\* String.prototype.trim
trim(text) == TrimEnd(TrimStart(text))

\* The value of an omitted preprocessOptions argument.
NoOptions == [undefined |-> TRUE]

PreprocessOptions ==
    [lowercase : BOOLEAN, removePunctuation : BOOLEAN, removeExtraSpaces : BOOLEAN]

preprocessText(text, options) ==
    LET p1 == IF options.lowercase THEN toLowerCase(text) ELSE text
        p2 == IF options.removePunctuation THEN ReplacePunctuation(p1) ELSE p1
        p3 == IF options.removeExtraSpaces THEN trim(CollapseSpaces(p2)) ELSE p2
    IN  p3

\* text.split(/\s+/).filter((word) => word.length > 0): the maximal runs of
\* non-whitespace characters, in order.  cur is the run being read.
RECURSIVE SplitFrom(_, _)
SplitFrom(text, cur) ==
    IF text = <<>>
    THEN IF cur = <<>> THEN <<>> ELSE <<cur>>
    ELSE IF Head(text) \in Whitespace
         THEN IF cur = <<>>
              THEN SplitFrom(Tail(text), <<>>)
              ELSE <<cur>> \o SplitFrom(Tail(text), <<>>)
         ELSE SplitFrom(Tail(text), Append(cur, Head(text)))

SplitWords(text) == SplitFrom(text, <<>>)

Tokenize(text, options) ==
    SplitWords(IF options = NoOptions THEN text ELSE preprocessText(text, options))

(* ------------------------------ aligner ------------------------------- *)

\* The value of an absent position (referencePosition: undefined).
Undefined == -1

Min3(a, b, c) ==
    IF a <= b /\ a <= c THEN a ELSE IF b <= c THEN b ELSE c

\* Mutant of BaseCell: the table keeps the zeros it was allocated with.
BaseCellZero(i, j) == 0

\* The base cases dp[i][0] = i and dp[0][j] = j, for a cell with i = 0 or j = 0.
BaseCell(i, j) == IF j = 0 THEN i ELSE j

\* Mutant of MinCost: the insertion cost is left out of the minimum.
MinCostNoInsertion(d, i, j) ==
    IF d[i - 1, j - 1] <= d[i - 1, j] THEN d[i - 1, j - 1] + 1 ELSE d[i - 1, j] + 1

\* Mutant of MinCost: the substitution cost is left out of the minimum.
MinCostNoSubstitution(d, i, j) ==
    IF d[i - 1, j] <= d[i, j - 1] THEN d[i - 1, j] + 1 ELSE d[i, j - 1] + 1

\* Mutant of MinCost: the deletion cost is left out of the minimum.
MinCostNoDeletion(d, i, j) ==
    IF d[i - 1, j - 1] <= d[i, j - 1] THEN d[i - 1, j - 1] + 1 ELSE d[i, j - 1] + 1

\* Math.min(substitutionCost, deletionCost, insertionCost)
MinCost(d, i, j) == Min3(d[i - 1, j - 1] + 1, d[i - 1, j] + 1, d[i, j - 1] + 1)

\* One cell of the table, from the cells already filled (d).
FillCell(ref, pred, d, i, j) ==
    IF ref[i] = pred[j] THEN d[i - 1, j - 1] ELSE MinCost(d, i, j)

\* Array(m + 1).fill(null).map(() => Array(n + 1).fill(0))
AllocTable(m, n) == [i \in 0..m, j \in 0..n |-> 0]

\* for (i = 0; i <= m; i++) dp[i][0] = i; for (j = 0; j <= n; j++) dp[0][j] = j
InitBaseCases(d, m, n) ==
    [i \in 0..m, j \in 0..n |-> IF i = 0 \/ j = 0 THEN BaseCell(i, j) ELSE d[i, j]]

\* The two nested loops, from cell (i, j) on: row by row, left to right.
RECURSIVE FillFrom(_, _, _, _, _)
FillFrom(ref, pred, d, i, j) ==
    IF i > Len(ref) THEN d
    ELSE IF j > Len(pred) THEN FillFrom(ref, pred, d, i + 1, 1)
    ELSE FillFrom(ref, pred, [d EXCEPT ![i, j] = FillCell(ref, pred, d, i, j)], i, j + 1)

\* The dynamic-programming table of alignWordsWithPositions.
BuildTable(ref, pred) ==
    FillFrom(ref, pred,
             InitBaseCases(AllocTable(Len(ref), Len(pred)), Len(ref), Len(pred)), 1, 1)

\* The loop variables before the first iteration of the backtracking loop.
LoopStart(ref, pred) ==
    [i |-> Len(ref), j |-> Len(pred),
     refPos |-> Len(ref) - 1, predPos |-> Len(pred) - 1,
     alignment |-> <<>>, detailedErrors |-> <<>>, broke |-> FALSE]

LoopContinues(st) == ~st.broke /\ (st.i > 0 \/ st.j > 0)

\* The conditions of the four branches of the loop body.
IsMatch(ref, pred, i, j) == i > 0 /\ j > 0 /\ ref[i] = pred[j]

\* Mutant of IsSubstitution: the cost of the step is forgotten.
IsSubstitutionNoCost(d, i, j) == i > 0 /\ j > 0 /\ d[i, j] = d[i - 1, j - 1]

IsSubstitution(d, i, j) == i > 0 /\ j > 0 /\ d[i, j] = d[i - 1, j - 1] + 1

IsDeletion(d, i, j) == i > 0 /\ d[i, j] = d[i - 1, j] + 1

IsInsertion(d, i, j) == j > 0 /\ d[i, j] = d[i, j - 1] + 1

\* Mutant of CorrectEntry: the entry carries the tag of the next branch.
CorrectEntryAsSubstitution(ref, pred, st) ==
    [reference |-> ref[st.i], prediction |-> pred[st.j], type |-> "substitution",
     referencePosition |-> st.refPos, predictionPosition |-> st.predPos]

\* The entries the four branches put in front of the alignment.
CorrectEntry(ref, pred, st) ==
    [reference |-> ref[st.i], prediction |-> pred[st.j], type |-> "correct",
     referencePosition |-> st.refPos, predictionPosition |-> st.predPos]

SubstitutionEntry(ref, pred, st) ==
    [reference |-> ref[st.i], prediction |-> pred[st.j], type |-> "substitution",
     referencePosition |-> st.refPos, predictionPosition |-> st.predPos]

DeletionEntry(ref, st) ==
    [reference |-> ref[st.i], prediction |-> <<>>, type |-> "deletion",
     referencePosition |-> st.refPos, predictionPosition |-> Undefined]

\* Mutant of InsertionEntry: the entry carries the tag of the previous branch.
InsertionEntryAsDeletion(pred, st) ==
    [reference |-> <<>>, prediction |-> pred[st.j], type |-> "deletion",
     referencePosition |-> Undefined, predictionPosition |-> st.predPos]

InsertionEntry(pred, st) ==
    [reference |-> <<>>, prediction |-> pred[st.j], type |-> "insertion",
     referencePosition |-> Undefined, predictionPosition |-> st.predPos]

\* Mutant of SubstitutionDetail: the two words change places.
SubstitutionDetailSwapped(ref, pred, st) ==
    [type |-> "substitution", referenceWord |-> pred[st.j], predictionWord |-> ref[st.i],
     referencePosition |-> st.refPos, predictionPosition |-> st.predPos]

\* The entries the three error branches put in front of detailedErrors.
SubstitutionDetail(ref, pred, st) ==
    [type |-> "substitution", referenceWord |-> ref[st.i], predictionWord |-> pred[st.j],
     referencePosition |-> st.refPos, predictionPosition |-> st.predPos]

DeletionDetail(ref, st) ==
    [type |-> "deletion", referenceWord |-> ref[st.i], referencePosition |-> st.refPos]

InsertionDetail(pred, st) ==
    [type |-> "insertion", predictionWord |-> pred[st.j], predictionPosition |-> st.predPos]

\* The moves of the loop variables: diagonal, up, left.
MoveDiagonal(st) ==
    [st EXCEPT !.i = @ - 1, !.j = @ - 1, !.refPos = @ - 1, !.predPos = @ - 1]

MoveUp(st) == [st EXCEPT !.i = @ - 1, !.refPos = @ - 1]

MoveLeft(st) == [st EXCEPT !.j = @ - 1, !.predPos = @ - 1]

\* One iteration of the backtracking loop: the four branches in the order
\* of the code, then the fallback break.
BacktrackBody(ref, pred, d, st) ==
    IF IsMatch(ref, pred, st.i, st.j)
    THEN MoveDiagonal([st EXCEPT
            !.alignment = <<CorrectEntry(ref, pred, st)>> \o @])
    ELSE IF IsSubstitution(d, st.i, st.j)
    THEN MoveDiagonal([st EXCEPT
            !.alignment = <<SubstitutionEntry(ref, pred, st)>> \o @,
            !.detailedErrors = <<SubstitutionDetail(ref, pred, st)>> \o @])
    ELSE IF IsDeletion(d, st.i, st.j)
    THEN MoveUp([st EXCEPT
            !.alignment = <<DeletionEntry(ref, st)>> \o @,
            !.detailedErrors = <<DeletionDetail(ref, st)>> \o @])
    ELSE IF IsInsertion(d, st.i, st.j)
    THEN MoveLeft([st EXCEPT
            !.alignment = <<InsertionEntry(pred, st)>> \o @,
            !.detailedErrors = <<InsertionDetail(pred, st)>> \o @])
    ELSE [st EXCEPT !.broke = TRUE]

RECURSIVE BacktrackLoop(_, _, _, _)
BacktrackLoop(ref, pred, d, st) ==
    IF LoopContinues(st)
    THEN BacktrackLoop(ref, pred, d, BacktrackBody(ref, pred, d, st))
    ELSE st

alignWordsWithPositions(ref, pred) ==
    BacktrackLoop(ref, pred, BuildTable(ref, pred), LoopStart(ref, pred))

(* ------------------------------ metrics ------------------------------- *)

\* The quotient a / b of two counts, kept exact.
Ratio(a, b) == [num |-> a, den |-> b]

Zero == [num |-> 0, den |-> 1]

SameRatio(p, q) == p.num * q.den = q.num * p.den

CountType(al, t) == Cardinality({k \in DOMAIN al : al[k].type = t})

\* Mutant of TotalWords: the length of the alignment is taken.
TotalWordsOfAlignment(refWordsIn, al) == Len(al)

\* const totalWords = refWords.length
TotalWords(refWordsIn, al) == Len(refWordsIn)

\* The tally and the report of calculateWER, from the aligner's output.
Report(refWordsIn, al, errs) ==
    LET substitutions == CountType(al, "substitution")
        insertions    == CountType(al, "insertion")
        deletions     == CountType(al, "deletion")
        totalWords    == TotalWords(refWordsIn, al)
        totalErrors   == substitutions + insertions + deletions
    IN  [wer              |-> IF totalWords > 0 THEN Ratio(totalErrors, totalWords) ELSE Zero,
         substitutions    |-> substitutions,
         insertions       |-> insertions,
         deletions        |-> deletions,
         totalWords       |-> totalWords,
         substitutionRate |-> IF totalWords > 0 THEN Ratio(substitutions, totalWords) ELSE Zero,
         insertionRate    |-> IF totalWords > 0 THEN Ratio(insertions, totalWords) ELSE Zero,
         deletionRate     |-> IF totalWords > 0 THEN Ratio(deletions, totalWords) ELSE Zero,
         alignment        |-> al,
         detailedErrors   |-> errs]

calculateWER(ref, pred, options) ==
    LET rw == Tokenize(ref, options)
        pw == Tokenize(pred, options)
        st == alignWordsWithPositions(rw, pw)
    IN  Report(rw, st.alignment, st.detailedErrors)

(* ------------------------------ parsers ------------------------------- *)

\* text.split(sep) for a one-character separator: the pieces between the
\* separators, empty pieces included.  cur is the piece being read.
RECURSIVE SplitOnFrom(_, _, _)
SplitOnFrom(text, sep, cur) ==
    IF text = <<>> THEN <<cur>>
    ELSE IF Head(text) = sep
         THEN <<cur>> \o SplitOnFrom(Tail(text), sep, <<>>)
         ELSE SplitOnFrom(Tail(text), sep, Append(cur, Head(text)))

SplitOn(text, sep) == SplitOnFrom(text, sep, <<>>)

\* h.includes(part)
Includes(h, part) ==
    \E k \in 0..(Len(h) - Len(part)) : SubSeq(h, k + 1, k + Len(part)) = part

\* The outcome of a parser: the rows it returns, or the message it throws.
Return(rows) == [ok |-> TRUE, data |-> rows]

Throw(message) == [ok |-> FALSE, message |-> message]

IsReferenceHeader(h) ==
    \/ Includes(h, <<"r", "e", "f">>)
    \/ Includes(h, <<"g", "r", "o", "u", "n", "d">>)
    \/ Includes(h, <<"t", "r", "u", "t", "h">>)

IsPredictionHeader(h) ==
    \/ Includes(h, <<"p", "r", "e", "d">>)
    \/ Includes(h, <<"h", "y", "p">>)
    \/ Includes(h, <<"h", "y", "p", "o", "t", "h", "e", "s", "i", "s">>)

\* header.findIndex(...): the zero-based index of the first header cell
\* the test accepts (accepted[k] says whether it accepts cell k), -1 when
\* there is none.
FindIndex(accepted) ==
    IF \E k \in DOMAIN accepted : accepted[k]
    THEN (CHOOSE k \in DOMAIN accepted :
             accepted[k] /\ \A l \in 1..(k - 1) : ~accepted[l]) - 1
    ELSE -1

\* lines[0].split(',').map((h) => h.trim().toLowerCase())
HeaderCells(line) ==
    LET cells == SplitOn(line, ",")
    IN  [k \in DOMAIN cells |-> toLowerCase(trim(cells[k]))]

\* row.length > Math.max(refIndex, predIndex)
RowFits(row, refIndex, predIndex) ==
    Len(row) > (IF refIndex >= predIndex THEN refIndex ELSE predIndex)

\* row[index]?.trim() || ''
CellText(row, index) == IF index + 1 \in DOMAIN row THEN trim(row[index + 1]) ELSE <<>>

\* Mutant of MissingColumn: only a missing reference column is noticed.
MissingReferenceColumn(refIndex, predIndex) == refIndex = -1

\* refIndex === -1 || predIndex === -1
MissingColumn(refIndex, predIndex) == refIndex = -1 \/ predIndex = -1

parseCSV(content) ==
    LET lines == SplitOn(trim(content), "\n")
    IN  IF Len(lines) < 2
        THEN Throw("CSV must have at least a header row and one data row")
        ELSE
        LET header    == HeaderCells(lines[1])
            refIndex  == FindIndex([k \in DOMAIN header |-> IsReferenceHeader(header[k])])
            predIndex == FindIndex([k \in DOMAIN header |-> IsPredictionHeader(header[k])])
            rows      == [k \in 1..(Len(lines) - 1) |-> SplitOn(lines[k + 1], ",")]
            kept      == SelectSeq(rows, LAMBDA row : RowFits(row, refIndex, predIndex))
        IN  IF MissingColumn(refIndex, predIndex)
            THEN Throw("CSV must contain columns for reference and prediction")
            ELSE Return([k \in DOMAIN kept |->
                            [reference  |-> CellText(kept[k], refIndex),
                             prediction |-> CellText(kept[k], predIndex)]])

\* JavaScript values, as JSON.parse returns them: [t |-> "null"], strings
\* [t |-> "str", v |-> text], numbers [t |-> "num", v |-> n], arrays
\* [t |-> "arr", v |-> elements] and objects [t |-> "obj", v |-> fields].
JSUndefined == [t |-> "undefined"]

JSNull == [t |-> "null"]

JSString(text) == [t |-> "str", v |-> text]

JSNumber(n) == [t |-> "num", v |-> n]

JSArray(elements) == [t |-> "arr", v |-> elements]

JSObject(fields) == [t |-> "obj", v |-> fields]

\* A file's content is the text of a JSON document, kept as the value
\* JSON.parse returns for it, or some other text, which JSON.parse rejects.
JSONText(value) == [json |-> value]

PlainText(text) == [text |-> text]

IsJSONText(content) == "json" \in DOMAIN content

\* item.key
Property(item, key) ==
    IF item.t = "obj" /\ key \in DOMAIN item.v THEN item.v[key] ELSE JSUndefined

Truthy(value) ==
    CASE value.t = "str" -> value.v # <<>>
      [] value.t = "num" -> value.v # 0
      [] value.t \in {"obj", "arr"} -> TRUE
      [] OTHER -> FALSE

\* item.k1 || item.k2 || ... || ''
RECURSIVE FirstTruthy(_, _)
FirstTruthy(item, keys) ==
    IF keys = <<>> THEN JSString(<<>>)
    ELSE IF Truthy(Property(item, Head(keys))) THEN Property(item, Head(keys))
    ELSE FirstTruthy(item, Tail(keys))

DigitChars == <<"0", "1", "2", "3", "4", "5", "6", "7", "8", "9">>

RECURSIVE NumberText(_)
NumberText(n) ==
    IF n < 0 THEN <<"-">> \o NumberText(-n)
    ELSE IF n < 10 THEN <<DigitChars[n + 1]>>
    ELSE NumberText(n \div 10) \o <<DigitChars[(n % 10) + 1]>>

\* String(value), for the values FirstTruthy returns.
RECURSIVE StringOf(_)
StringOf(value) ==
    CASE value.t = "str" -> value.v
      [] value.t = "num" -> NumberText(value.v)
      [] value.t = "obj" -> <<"[", "o", "b", "j", "e", "c", "t", " ",
                              "O", "b", "j", "e", "c", "t", "]">>
      [] value.t = "arr" ->
            IF value.v = <<>> THEN <<>>
            ELSE IF Len(value.v) = 1 THEN StringOf(value.v[1])
            ELSE StringOf(value.v[1]) \o <<",">> \o StringOf(JSArray(Tail(value.v)))
      [] OTHER -> <<>>

\* typeof item === 'object' && item !== null
IsRowObject(item) == item.t \in {"obj", "arr"}

ReferenceKeys == <<"reference", "ref", "ground_truth", "truth">>

PredictionKeys == <<"prediction", "pred", "hypothesis", "hyp">>

parseJSON(content) ==
    IF ~IsJSONText(content) THEN Throw("Unexpected token in JSON")
    ELSE
    LET parsed == content.json
    IN  IF parsed.t = "arr"
        THEN IF \E k \in DOMAIN parsed.v : ~IsRowObject(parsed.v[k])
             THEN Throw("Invalid data format at index " \o
                        ToString((CHOOSE k \in DOMAIN parsed.v :
                                     /\ ~IsRowObject(parsed.v[k])
                                     /\ \A l \in 1..(k - 1) : IsRowObject(parsed.v[l])) - 1))
             ELSE Return([k \in DOMAIN parsed.v |->
                             [reference  |-> StringOf(FirstTruthy(parsed.v[k], ReferenceKeys)),
                              prediction |-> StringOf(FirstTruthy(parsed.v[k], PredictionKeys))]])
        ELSE Throw("JSON must be an array of objects")

\* name.endsWith(suffix)
EndsWith(name, suffix) ==
    Len(name) >= Len(suffix)
    /\ SubSeq(name, Len(name) - Len(suffix) + 1, Len(name)) = suffix

\* The try block of handleFileUpload up to the call of calculateResults.
ParseFile(file) ==
    LET parsed ==
            IF EndsWith(file.name, <<".", "c", "s", "v">>) THEN parseCSV(file.content.text)
            ELSE IF EndsWith(file.name, <<".", "j", "s", "o", "n">>) THEN parseJSON(file.content)
            ELSE Throw("Unsupported file format. Please use CSV or JSON.")
    IN  IF parsed.ok /\ Len(parsed.data) = 0
        THEN Throw("No valid data found in file.")
        ELSE parsed

(* -------------------------- batch aggregation ------------------------- *)

\* rs.reduce((sum, r) => sum + r[field], sum)
RECURSIVE ReduceSum(_, _, _)
ReduceSum(rs, field, sum) ==
    IF rs = <<>> THEN sum ELSE ReduceSum(Tail(rs), field, sum + Head(rs)[field])

\* Mutant of OverallRate: the mean of the per-sample rates.
RECURSIVE SumOfRates(_, _)
SumOfRates(rs, rate) ==
    IF rs = <<>> THEN Zero
    ELSE LET rest == SumOfRates(Tail(rs), rate)
             r    == Head(rs)[rate]
         IN  [num |-> r.num * rest.den + rest.num * r.den, den |-> r.den * rest.den]

MeanRate(rs, count, totalWords, rate) ==
    IF rs = <<>> THEN Zero
    ELSE [num |-> SumOfRates(rs, rate).num, den |-> SumOfRates(rs, rate).den * Len(rs)]

\* totalWords > 0 ? count / totalWords : 0
OverallRate(rs, count, totalWords, rate) ==
    IF totalWords > 0 THEN Ratio(count, totalWords) ELSE Zero

\* calculateResults: the per-row reports and the overall statistics.
CalculateResults(rows, options) ==
    LET rs == [k \in DOMAIN rows |->
                  [index |-> k - 1] @@
                  calculateWER(rows[k].reference, rows[k].prediction, options)]
        totalWords == ReduceSum(rs, "totalWords", 0)
        totalSubs  == ReduceSum(rs, "substitutions", 0)
        totalIns   == ReduceSum(rs, "insertions", 0)
        totalDel   == ReduceSum(rs, "deletions", 0)
    IN  [results |-> rs,
         overallStats |->
            [wer              |-> OverallRate(rs, totalSubs + totalIns + totalDel, totalWords, "wer"),
             substitutionRate |-> OverallRate(rs, totalSubs, totalWords, "substitutionRate"),
             insertionRate    |-> OverallRate(rs, totalIns, totalWords, "insertionRate"),
             deletionRate     |-> OverallRate(rs, totalDel, totalWords, "deletionRate"),
             totalSamples     |-> Len(rs)]]

(* ------------------------------- state -------------------------------- *)

VARIABLES
    \* one calculateWER call
    reference,          \* the reference text of the call
    prediction,         \* the prediction text of the call
    preprocessOptions,  \* the options of the call, or NoOptions
    refWords,           \* tokens of the reference
    predWords,          \* tokens of the prediction
    dp,                 \* the cost matrix
    loop,               \* i, j, refPos, predPos, alignment, detailedErrors
    result,             \* the returned WERResult
    swapped,            \* the WERResult of the call with the two texts exchanged
    pc,                 \* position of the call
    \* the page component
    data,               \* the rows of the uploaded dataset
    results,            \* one report per row
    overallStats,       \* the pooled rates
    pageOptions,        \* the page's preprocessOptions
    showResults,
    error,
    pending             \* the handleFileUpload calls waiting for file.text()

callVars == <<reference, prediction, preprocessOptions, refWords, predWords, dp,
              loop, result, swapped, pc>>

pageVars == <<data, results, overallStats, pageOptions, showResults, error, pending>>

vars == <<callVars, pageVars>>

\* DEFAULT_PREPROCESS_OPTIONS
DefaultOptions == [lowercase |-> TRUE, removePunctuation |-> TRUE, removeExtraSpaces |-> TRUE]

\* The options the page starts with.
PageOptions == [lowercase |-> FALSE, removePunctuation |-> FALSE, removeExtraSpaces |-> TRUE]

NoStats ==
    [wer |-> Zero, substitutionRate |-> Zero, insertionRate |-> Zero,
     deletionRate |-> Zero, totalSamples |-> 0]

\* The page as it is constructed.
PageStart ==
    /\ data = <<>>
    /\ results = <<>>
    /\ overallStats = NoStats
    /\ pageOptions = PageOptions
    /\ showResults = FALSE
    /\ error = ""
    /\ pending = EmptyBag

(* --------------------- one calculateWER call, stepwise ---------------- *)

\* The words the input texts of Spec are made of.
RawWords == {<<"a">>, <<"B">>, <<"b", ",">>}

RECURSIVE JoinWords(_)
JoinWords(ws) ==
    IF ws = <<>> THEN <<>>
    ELSE IF Len(ws) = 1 THEN ws[1]
    ELSE ws[1] \o <<" ">> \o JoinWords(Tail(ws))

Texts == {JoinWords(ws) : ws \in UNION {[1..k -> RawWords] : k \in 0..MaxLen}}

\* The options of the calls of Spec: none, the library's defaults, the page's.
OptionChoices == {NoOptions, DefaultOptions, PageOptions}

NoResult == [undefined |-> TRUE]

Init ==
    /\ reference \in Texts
    /\ prediction \in Texts
    /\ preprocessOptions \in OptionChoices
    /\ refWords = <<>>
    /\ predWords = <<>>
    /\ dp = <<>>
    /\ loop = LoopStart(<<>>, <<>>)
    /\ result = NoResult
    /\ swapped = NoResult
    /\ pc = "tokenize"
    /\ PageStart

\* calculateWER up to the call of the aligner.
TokenizeStep ==
    /\ pc = "tokenize"
    /\ refWords' = Tokenize(reference, preprocessOptions)
    /\ predWords' = Tokenize(prediction, preprocessOptions)
    /\ pc' = "table"
    /\ UNCHANGED <<reference, prediction, preprocessOptions, dp, loop, result, swapped>>
    /\ UNCHANGED pageVars

\* The table is allocated and filled, and the loop variables are set.
BuildTableStep ==
    /\ pc = "table"
    /\ dp' = BuildTable(refWords, predWords)
    /\ loop' = LoopStart(refWords, predWords)
    /\ pc' = "backtrack"
    /\ UNCHANGED <<reference, prediction, preprocessOptions, refWords, predWords, result,
                   swapped>>
    /\ UNCHANGED pageVars

\* One iteration of while (i > 0 || j > 0).
BacktrackStep ==
    /\ pc = "backtrack"
    /\ LoopContinues(loop)
    /\ loop' = BacktrackBody(refWords, predWords, dp, loop)
    /\ UNCHANGED <<reference, prediction, preprocessOptions, refWords, predWords, dp,
                   result, swapped, pc>>
    /\ UNCHANGED pageVars

\* The loop is left (its condition is false, or the fallback broke out of
\* it), the aligner returns and calculateWER tallies and returns the report.
ReturnStep ==
    /\ pc = "backtrack"
    /\ ~LoopContinues(loop)
    /\ result' = Report(refWords, loop.alignment, loop.detailedErrors)
    /\ pc' = "done"
    /\ UNCHANGED <<reference, prediction, preprocessOptions, refWords, predWords, dp, loop,
                   swapped>>
    /\ UNCHANGED pageVars

Next == TokenizeStep \/ BuildTableStep \/ BacktrackStep \/ ReturnStep

Spec == Init /\ [][Next]_vars

(* ------------------ two calls with the texts exchanged ---------------- *)

\* Longest token sequence fed to the calls of SpecSwap.
MaxSwapLen == 5

\* The words the input texts of SpecSwap are made of.
SwapWords == {<<"a">>, <<"b">>}

SwapTexts == {JoinWords(ws) : ws \in UNION {[1..k -> SwapWords] : k \in 0..MaxSwapLen}}

InitSwap ==
    /\ reference \in SwapTexts
    /\ prediction \in SwapTexts
    /\ preprocessOptions = NoOptions
    /\ refWords = <<>>
    /\ predWords = <<>>
    /\ dp = <<>>
    /\ loop = LoopStart(<<>>, <<>>)
    /\ result = NoResult
    /\ swapped = NoResult
    /\ pc = "forward"
    /\ PageStart

\* calculateWER(reference, prediction), as one step.
CallForward ==
    /\ pc = "forward"
    /\ result' = calculateWER(reference, prediction, preprocessOptions)
    /\ pc' = "backward"
    /\ UNCHANGED <<reference, prediction, preprocessOptions, refWords, predWords, dp, loop,
                   swapped>>
    /\ UNCHANGED pageVars

\* calculateWER(prediction, reference), as one step.
CallBackward ==
    /\ pc = "backward"
    /\ swapped' = calculateWER(prediction, reference, preprocessOptions)
    /\ pc' = "both"
    /\ UNCHANGED <<reference, prediction, preprocessOptions, refWords, predWords, dp, loop,
                   result>>
    /\ UNCHANGED pageVars

NextSwap == CallForward \/ CallBackward

SpecSwap == InitSwap /\ [][NextSwap]_vars

(* --------------------------- the page component ----------------------- *)

\* Most handleFileUpload calls that wait for their file at the same time.
MaxPending == 2

CSVName == <<"d", ".", "c", "s", "v">>

JSONName == <<"d", ".", "j", "s", "o", "n">>

TextName == <<"d", ".", "t", "x", "t">>

\* ref,pred / a B,a / B,B a
GoodCSV ==
    [name |-> CSVName,
     content |-> PlainText(<<"r", "e", "f", ",", "p", "r", "e", "d", "\n",
                             "a", " ", "B", ",", "a", "\n",
                             "B", ",", "B", " ", "a">>)]

\* ref,text / a,a
NoPredictionColumnCSV ==
    [name |-> CSVName,
     content |-> PlainText(<<"r", "e", "f", ",", "t", "e", "x", "t", "\n", "a", ",", "a">>)]

\* id,Truth, Hyp / 1,a / 2,a,b   (the first row has no third cell)
ShortRowCSV ==
    [name |-> CSVName,
     content |-> PlainText(<<"i", "d", ",", "T", "r", "u", "t", "h", ",", " ", "H", "y", "p", "\n",
                             "1", ",", "a", "\n",
                             "2", ",", "a", ",", "b">>)]

\* ref,pred   (a header and nothing else)
HeaderOnlyCSV ==
    [name |-> CSVName,
     content |-> PlainText(<<"r", "e", "f", ",", "p", "r", "e", "d">>)]

GoodRow == JSObject([reference |-> JSString(<<"a">>), prediction |-> JSString(<<"a">>)])

\* [{"reference": "a", "prediction": "a"}, {"ref": "a B", "hyp": "B"}]
GoodJSON ==
    [name |-> JSONName,
     content |-> JSONText(JSArray(<<GoodRow,
                                    JSObject([ref |-> JSString(<<"a", " ", "B">>),
                                              hyp |-> JSString(<<"B">>)])>>))]

\* {"reference": "a", "prediction": "a"}
NotArrayJSON == [name |-> JSONName, content |-> JSONText(GoodRow)]

\* [{"reference": "a", "prediction": "a"}, null]
NullElementJSON == [name |-> JSONName, content |-> JSONText(JSArray(<<GoodRow, JSNull>>))]

\* [{"prediction": "a B"}]
MissingFieldJSON ==
    [name |-> JSONName,
     content |-> JSONText(JSArray(<<JSObject([prediction |-> JSString(<<"a", " ", "B">>)])>>))]

\* a file named .json that holds no JSON document
BrokenJSON == [name |-> JSONName, content |-> PlainText(<<"r", "e", "f">>)]

\* []
EmptyJSON == [name |-> JSONName, content |-> JSONText(JSArray(<<>>))]

OtherFile == [name |-> TextName, content |-> PlainText(<<"a", ",", "a">>)]

\* The files a user uploads.
Files ==
    {GoodCSV, NoPredictionColumnCSV, ShortRowCSV, HeaderOnlyCSV,
     GoodJSON, NotArrayJSON, NullElementJSON, MissingFieldJSON,
     BrokenJSON, EmptyJSON, OtherFile}

\* The selections the file input hands to handleFileUpload: nothing, or
\* one file.
FileLists == {<<>>} \cup {<<f>> : f \in Files}

Idle ==
    /\ reference = <<>>
    /\ prediction = <<>>
    /\ preprocessOptions = NoOptions
    /\ refWords = <<>>
    /\ predWords = <<>>
    /\ dp = <<>>
    /\ loop = LoopStart(<<>>, <<>>)
    /\ result = NoResult
    /\ swapped = NoResult
    /\ pc = "idle"

InitPage == Idle /\ PageStart

\* handleFileUpload up to its await: the change event of the file input.
HandleFileUpload(files) ==
    /\ IF Len(files) = 0
       THEN UNCHANGED <<error, pending>>
       ELSE /\ BagCardinality(pending) < MaxPending
            /\ error' = ""
            /\ pending' = pending (+) SetToBag({files[1]})
    /\ UNCHANGED <<data, results, overallStats, pageOptions, showResults>>
    /\ UNCHANGED callVars

\* handleFileUpload after its await: file.text() has resolved.
FileRead(file) ==
    /\ BagIn(file, pending)
    /\ pending' = pending (-) SetToBag({file})
    /\ LET parsed == ParseFile(file)
       IN  IF parsed.ok
           THEN LET calc == CalculateResults(parsed.data, pageOptions)
                IN  /\ data' = parsed.data
                    /\ results' = calc.results
                    /\ overallStats' = calc.overallStats
                    /\ showResults' = TRUE
                    /\ UNCHANGED error
           ELSE /\ error' = parsed.message
                /\ data' = <<>>
                /\ results' = <<>>
                /\ showResults' = FALSE
                /\ UNCHANGED overallStats
    /\ UNCHANGED pageOptions
    /\ UNCHANGED callVars

\* A preprocessing checkbox is toggled (the checkboxes are rendered while
\* data is not empty) and its change event runs onPreprocessChange.
OnPreprocessChange(option) ==
    /\ Len(data) > 0
    /\ pageOptions' = [pageOptions EXCEPT ![option] = ~@]
    /\ IF Len(data) > 0
       THEN LET calc == CalculateResults(data, pageOptions')
            IN  /\ results' = calc.results
                /\ overallStats' = calc.overallStats
                /\ showResults' = TRUE
       ELSE UNCHANGED <<results, overallStats, showResults>>
    /\ UNCHANGED <<data, error, pending>>
    /\ UNCHANGED callVars

NextPage ==
    \/ \E files \in FileLists : HandleFileUpload(files)
    \/ \E file \in Files : FileRead(file)
    \/ \E option \in {"lowercase", "removePunctuation", "removeExtraSpaces"} :
          OnPreprocessChange(option)

SpecPage == InitPage /\ [][NextPage]_vars

(* ---------------------- properties of one call ------------------------ *)

\* The table is complete in these positions of the call.
TableBuilt == pc \in {"backtrack", "done"}

Returned == pc = "done"

Max2(a, b) == IF a >= b THEN a ELSE b

Abs(a) == IF a >= 0 THEN a ELSE -a

\* The textbook edit distance of every pair of prefixes of a and b, as a
\* table L with L[i, 0] = i, L[0, j] = j and, elsewhere, L[i, j] the cheapest
\* of dropping a token of a, adding a token of b, and pairing the two last
\* tokens (free when they are equal).  Filled column by column.
RECURSIVE LevenshteinFrom(_, _, _, _, _)
LevenshteinFrom(a, b, L, i, j) ==
    IF j > Len(b) THEN L
    ELSE IF i > Len(a) THEN LevenshteinFrom(a, b, L, 0, j + 1)
    ELSE LET v == IF i = 0 THEN j
                  ELSE IF j = 0 THEN i
                  ELSE Min3(L[<<i - 1, j>>] + 1,
                            L[<<i, j - 1>>] + 1,
                            L[<<i - 1, j - 1>>] + (IF a[i] = b[j] THEN 0 ELSE 1))
         IN  LevenshteinFrom(a, b, (<<i, j>> :> v) @@ L, i + 1, j)

Levenshtein(a, b) == LevenshteinFrom(a, b, <<>>, 0, 0)

NonCorrect(al) == Cardinality({k \in DOMAIN al : al[k].type # "correct"})

HasType(al, t) == \E k \in DOMAIN al : al[k].type = t

AllOfType(al, t) == \A k \in DOMAIN al : al[k].type = t

\* The entries that carry a reference (prediction) position, in trace order.
WithReference(al) == SelectSeq(al, LAMBDA e : e.referencePosition # Undefined)

WithPrediction(al) == SelectSeq(al, LAMBDA e : e.predictionPosition # Undefined)

\* C1: every cell dp[i][j] is the minimum number of substitutions,
\* insertions and deletions that turn the first i reference tokens into the
\* first j prediction tokens, and the returned alignment has exactly
\* dp[m][n] entries that are not 'correct'.
C1_MinimumCostAlignment ==
    /\ TableBuilt =>
         LET L == Levenshtein(refWords, predWords)
         IN  \A i \in 0..Len(refWords), j \in 0..Len(predWords) : dp[i, j] = L[<<i, j>>]
    /\ Returned =>
         NonCorrect(result.alignment) = dp[Len(refWords), Len(predWords)]

C1_Witness ==
    /\ Returned
    /\ dp[Len(refWords), Len(predWords)] >= 2
    /\ HasType(result.alignment, "correct")
    /\ HasType(result.alignment, "substitution")
    /\ HasType(result.alignment, "deletion") \/ HasType(result.alignment, "insertion")

\* C2: the backtracking loop never takes the fallback break, its position
\* counters stay one below its indices while the trace grows by the tokens
\* it passes, and it ends at (i, j) = (0, 0); the entries with a reference position carry positions
\* 0 .. |ref|-1 in trace order, each with the reference token of that
\* position, and likewise the entries with a prediction position.
C2_TraceCoversBothSequences ==
    /\ ~loop.broke
    /\ TableBuilt =>
         /\ loop.i \in 0..Len(refWords) /\ loop.j \in 0..Len(predWords)
         /\ loop.refPos = loop.i - 1 /\ loop.predPos = loop.j - 1
         /\ Len(WithReference(loop.alignment)) = Len(refWords) - loop.i
         /\ Len(WithPrediction(loop.alignment)) = Len(predWords) - loop.j
    /\ Returned =>
         LET re == WithReference(result.alignment)
             pe == WithPrediction(result.alignment)
         IN  /\ loop.i = 0 /\ loop.j = 0
             /\ Len(re) = Len(refWords)
             /\ \A p \in DOMAIN re :
                    re[p].referencePosition = p - 1 /\ re[p].reference = refWords[p]
             /\ Len(pe) = Len(predWords)
             /\ \A p \in DOMAIN pe :
                    pe[p].predictionPosition = p - 1 /\ pe[p].prediction = predWords[p]

C2_Witness ==
    /\ Returned
    /\ Len(refWords) = MaxLen /\ Len(predWords) = MaxLen
    /\ HasType(result.alignment, "deletion")
    /\ HasType(result.alignment, "insertion")
    /\ Len(result.alignment) = MaxLen + 1

\* C3: in every report the three counts add up to the number of entries
\* that are not 'correct', totalWords is the number of reference tokens,
\* wer is the error count over totalWords when totalWords > 0, and with an
\* empty reference wer and the three rates are 0 while every prediction
\* token is reported as an 'insertion'.
C3_RateConsistency ==
    Returned =>
        LET errors == NonCorrect(loop.alignment)
        IN  /\ result.substitutions + result.insertions + result.deletions = errors
            /\ result.totalWords = Len(refWords)
            /\ Len(refWords) > 0 =>
                  /\ result.wer.den # 0
                  /\ SameRatio(result.wer, Ratio(errors, Len(refWords)))
            /\ Len(refWords) = 0 =>
                  /\ result.wer = Zero
                  /\ result.substitutionRate = Zero
                  /\ result.insertionRate = Zero
                  /\ result.deletionRate = Zero
                  /\ Len(result.alignment) = Len(predWords)
                  /\ AllOfType(result.alignment, "insertion")
                  /\ result.insertions = Len(predWords)

C3_Witness ==
    /\ Returned
    /\ Len(refWords) = 0
    /\ Len(predWords) = MaxLen
    /\ result.insertions = MaxLen

NoCommonToken(a, b) == \A p \in DOMAIN a, q \in DOMAIN b : a[p] # b[q]

\* C4: when no reference token occurs in the prediction and both sequences
\* have the same length, the alignment is |reference| 'substitution'
\* entries and nothing else.
C4_FullMismatchIsAllSubstitutions ==
    (Returned /\ Len(refWords) = Len(predWords) /\ NoCommonToken(refWords, predWords)) =>
        /\ Len(result.alignment) = Len(refWords)
        /\ AllOfType(result.alignment, "substitution")

C4_Witness ==
    /\ Returned
    /\ Len(refWords) = MaxLen /\ Len(predWords) = MaxLen
    /\ NoCommonToken(refWords, predWords)
    /\ result.substitutions = MaxLen

\* C5 as stated: with totalWords > 0 each of the three counts is at most
\* totalWords, so each component rate lies in [0, 1].
C5_ComponentRatesAtMostOne ==
    (Returned /\ result.totalWords > 0) =>
        /\ result.substitutions <= result.totalWords
        /\ result.insertions <= result.totalWords
        /\ result.deletions <= result.totalWords

\* C5, amended: with totalWords > 0 the substitution and deletion counts
\* (together) are at most totalWords, so those two rates lie in [0, 1]; the
\* insertion count is at most the number of prediction tokens, so the
\* insertion rate lies in [0, |prediction| / totalWords].
C5_SubstitutionAndDeletionRatesAtMostOne ==
    (Returned /\ result.totalWords > 0) =>
        /\ result.substitutions >= 0 /\ result.insertions >= 0 /\ result.deletions >= 0
        /\ result.substitutions + result.deletions <= result.totalWords
        /\ result.insertions + result.substitutions <= Len(predWords)
        /\ result.substitutionRate = Ratio(result.substitutions, result.totalWords)
        /\ result.insertionRate = Ratio(result.insertions, result.totalWords)
        /\ result.deletionRate = Ratio(result.deletions, result.totalWords)

C5_Witness ==
    /\ Returned
    /\ result.totalWords > 0
    /\ result.insertions > result.totalWords

\* C6: a token sequence aligned with itself gives one 'correct' entry per
\* token and nothing else, no substitution, insertion or deletion, wer 0.
C6_Identity ==
    (Returned /\ refWords = predWords) =>
        /\ Len(result.alignment) = Len(refWords)
        /\ AllOfType(result.alignment, "correct")
        /\ result.substitutions = 0
        /\ result.insertions = 0
        /\ result.deletions = 0
        /\ result.wer.num = 0 /\ result.wer.den # 0

C6_Witness ==
    /\ Returned
    /\ refWords = predWords
    /\ Len(refWords) = MaxLen
    /\ \E p, q \in DOMAIN refWords : refWords[p] # refWords[q]

\* The outcome a size-limit failure would have.
SizeLimitError == [error |-> "size limit"]

\* C8: some bound on the token count is enforced: a call whose reference or
\* prediction has more tokens than the bound ends in a size-limit error
\* instead of a report.
C8_SizeLimitEnforced ==
    \E limit \in 0..(MaxLen - 1) :
        (Returned /\ (Len(refWords) > limit \/ Len(predWords) > limit)) =>
            result = SizeLimitError

\* C10: |m - n| <= dp[m][n] <= max(m, n), and dp[i][0] = i, dp[0][j] = j.
C10_CostBound ==
    TableBuilt =>
        LET m == Len(refWords)
            n == Len(predWords)
        IN  /\ Abs(m - n) <= dp[m, n]
            /\ dp[m, n] <= Max2(m, n)
            /\ \A i \in 0..m : dp[i, 0] = i
            /\ \A j \in 0..n : dp[0, j] = j

C10_Witness ==
    /\ TableBuilt
    /\ Len(refWords) = MaxLen
    /\ Len(predWords) = 1
    /\ dp[Len(refWords), Len(predWords)] = MaxLen - 1

\* An alignment entry as its tag requires it.
WellTyped(e) ==
    /\ DOMAIN e = {"reference", "prediction", "type",
                   "referencePosition", "predictionPosition"}
    /\ e.type \in {"correct", "substitution", "deletion", "insertion"}
    /\ e.type = "correct" =>
          /\ e.referencePosition # Undefined /\ e.predictionPosition # Undefined
          /\ e.reference = e.prediction
    /\ e.type = "substitution" =>
          /\ e.referencePosition # Undefined /\ e.predictionPosition # Undefined
          /\ e.reference # e.prediction
    /\ e.type = "deletion" =>
          /\ e.reference # <<>>
          /\ e.prediction = <<>>
          /\ e.referencePosition # Undefined /\ e.predictionPosition = Undefined
    /\ e.type = "insertion" =>
          /\ e.reference = <<>>
          /\ e.referencePosition = Undefined
          /\ e.prediction # <<>>
          /\ e.predictionPosition # Undefined

\* The fields of an entry that its error kind uses, under the names an
\* error detail gives them.
Projection(e) ==
    CASE e.type = "substitution" ->
            [type |-> e.type, referenceWord |-> e.reference, predictionWord |-> e.prediction,
             referencePosition |-> e.referencePosition,
             predictionPosition |-> e.predictionPosition]
      [] e.type = "deletion" ->
            [type |-> e.type, referenceWord |-> e.reference,
             referencePosition |-> e.referencePosition]
      [] e.type = "insertion" ->
            [type |-> e.type, predictionWord |-> e.prediction,
             predictionPosition |-> e.predictionPosition]

Errors(al) == SelectSeq(al, LAMBDA e : e.type # "correct")

ProjectedErrors(al) == [k \in DOMAIN Errors(al) |-> Projection(Errors(al)[k])]

\* C11: every entry of the alignment is well-typed for its tag ('correct':
\* both positions, equal tokens; 'substitution': both positions, different
\* tokens; 'deletion': a non-empty reference token, prediction '' and no
\* prediction position; 'insertion': reference '', no reference position
\* and a non-empty prediction token), and detailedErrors is the subsequence
\* of the entries that are not 'correct', in the same order, with the same
\* type, words and positions.  It holds of the trace after every iteration
\* of the loop and of the returned report.
C11_EntriesWellTyped ==
    /\ TableBuilt =>
          /\ \A k \in DOMAIN loop.alignment : WellTyped(loop.alignment[k])
          /\ loop.detailedErrors = ProjectedErrors(loop.alignment)
    /\ Returned =>
          /\ \A k \in DOMAIN result.alignment : WellTyped(result.alignment[k])
          /\ result.detailedErrors = ProjectedErrors(result.alignment)

C11_Witness ==
    /\ Returned
    /\ Len(result.alignment) = MaxLen
    /\ HasType(result.alignment, "correct")
    /\ Len(result.detailedErrors) = 2
    /\ result.detailedErrors[1].type = "substitution"
    /\ result.detailedErrors[2].type # "substitution"

(* ------------- properties of two calls with the texts exchanged ------ *)

BothReturned == pc = "both"

TotalErrors(report) == report.substitutions + report.insertions + report.deletions

\* C12 as stated: the two calls report the same number of substitutions,
\* and the insertions of one are the deletions of the other.
C12_SwapMirrorsCounts ==
    BothReturned =>
        /\ result.substitutions = swapped.substitutions
        /\ result.insertions = swapped.deletions
        /\ result.deletions = swapped.insertions

\* C12, amended: the two calls report the same total number of errors, and
\* the surplus of insertions over deletions of one call is the surplus of
\* deletions over insertions of the other (the difference of the two token
\* counts); the number of substitutions, and with it the numbers of
\* insertions and deletions, may differ between the two directions.
C12_SwapKeepsTotalErrors ==
    BothReturned =>
        /\ TotalErrors(result) = TotalErrors(swapped)
        /\ result.insertions - result.deletions = swapped.deletions - swapped.insertions
        /\ result.insertions - result.deletions = swapped.totalWords - result.totalWords
        /\ Len(result.alignment) - result.insertions = result.totalWords
        /\ Len(swapped.alignment) - swapped.insertions = swapped.totalWords

\* Two directions that disagree on the number of substitutions.
C12_Witness ==
    /\ BothReturned
    /\ result.substitutions # swapped.substitutions
    /\ TotalErrors(result) = TotalErrors(swapped)

(* ------------------------ properties of the page ---------------------- *)

\* The sum of a field over the reports with index in S, in no fixed order.
RECURSIVE SumField(_, _, _)
SumField(rs, S, field) ==
    IF S = {} THEN 0
    ELSE LET k == CHOOSE k \in S : TRUE
         IN  rs[k][field] + SumField(rs, S \ {k}, field)

Reordered(rows, perm) == [k \in DOMAIN rows |-> rows[perm[k]]]

\* C7: the overall rates are the pooled counts over the pooled totalWords
\* (0 when the pooled totalWords is 0), whatever the order of the samples.
C7_PooledRates ==
    showResults =>
        LET all   == DOMAIN results
            words == SumField(results, all, "totalWords")
            subs  == SumField(results, all, "substitutions")
            ins   == SumField(results, all, "insertions")
            dels  == SumField(results, all, "deletions")
        IN  /\ Len(results) = Len(data)
            /\ overallStats.totalSamples = Len(data)
            /\ words > 0 =>
                  /\ overallStats.wer.den > 0
                  /\ overallStats.substitutionRate.den > 0
                  /\ overallStats.insertionRate.den > 0
                  /\ overallStats.deletionRate.den > 0
                  /\ SameRatio(overallStats.wer, Ratio(subs + ins + dels, words))
                  /\ SameRatio(overallStats.substitutionRate, Ratio(subs, words))
                  /\ SameRatio(overallStats.insertionRate, Ratio(ins, words))
                  /\ SameRatio(overallStats.deletionRate, Ratio(dels, words))
            /\ words = 0 =>
                  /\ overallStats.wer = Zero
                  /\ overallStats.substitutionRate = Zero
                  /\ overallStats.insertionRate = Zero
                  /\ overallStats.deletionRate = Zero
            /\ \A perm \in Permutations(DOMAIN data) :
                  CalculateResults(Reordered(data, perm), pageOptions).overallStats
                     = overallStats

\* Two samples whose pooled rate is not the mean of their rates.
C7_Witness ==
    /\ showResults
    /\ Len(results) = 2
    /\ results[1].totalWords # results[2].totalWords
    /\ overallStats.wer.den > 0
    /\ ~SameRatio(overallStats.wer, MeanRate(results, 0, 0, "wer"))

IsCSV(file) == EndsWith(file.name, <<".", "c", "s", "v">>)

IsJSON(file) == EndsWith(file.name, <<".", "j", "s", "o", "n">>) /\ IsJSONText(file.content)

CSVLines(file) == SplitOn(trim(file.content.text), "\n")

\* A CSV file whose header has no reference-like or no prediction-like cell.
LacksColumn(file) ==
    /\ IsCSV(file)
    /\ LET header == HeaderCells(CSVLines(file)[1])
       IN  \/ \A k \in DOMAIN header : ~IsReferenceHeader(header[k])
           \/ \A k \in DOMAIN header : ~IsPredictionHeader(header[k])

NotAnArray(file) == IsJSON(file) /\ file.content.json.t # "arr"

HasNonObjectElement(file) ==
    /\ IsJSON(file)
    /\ file.content.json.t = "arr"
    /\ \E k \in DOMAIN file.content.json.v : file.content.json.v[k].t \notin {"obj", "arr"}

HasKey(item, keys) == \E k \in DOMAIN keys : keys[k] \in DOMAIN item.v

\* A row that does not hold both fields: a CSV line with fewer cells than
\* the header, a JSON object without a reference or a prediction key.
HasIncompleteRow(file) ==
    \/ /\ IsCSV(file)
       /\ ~LacksColumn(file)
       /\ \E k \in 2..Len(CSVLines(file)) :
             Len(SplitOn(CSVLines(file)[k], ",")) < Len(SplitOn(CSVLines(file)[1], ","))
    \/ /\ IsJSON(file)
       /\ file.content.json.t = "arr"
       /\ \E k \in DOMAIN file.content.json.v :
             /\ file.content.json.v[k].t = "obj"
             /\ \/ ~HasKey(file.content.json.v[k], ReferenceKeys)
                \/ ~HasKey(file.content.json.v[k], PredictionKeys)

\* The step is the end of an upload of this file.
Read(file) == BagIn(file, pending) /\ pending' = pending (-) SetToBag({file})

\* The page after a rejected upload: the error is shown, nothing was
\* handed to calculateWER.
Rejected == error # "" /\ data = <<>> /\ results = <<>> /\ ~showResults

IsText(t) == DOMAIN t = 1..Len(t)

\* C9 as stated: a dataset with a missing column, a JSON document that is
\* no array, an element that is no object, or a row that does not hold both
\* fields is rejected with an error, and none of its rows reaches
\* calculateWER.
C9_MalformedDatasetRejected ==
    [][\A file \in Files :
          (/\ Read(file)
           /\ \/ LacksColumn(file)
              \/ NotAnArray(file)
              \/ HasNonObjectElement(file)
              \/ HasIncompleteRow(file)) => Rejected']_vars

\* C9, amended: a dataset with a missing column, a JSON document that is no
\* array and a JSON array with an element that is no object are rejected
\* with an error and none of their rows reaches calculateWER; of any other
\* dataset, every row handed to calculateWER has a reference text and a
\* prediction text (a missing field is the empty text), and a CSV line with
\* too few cells is left out.
C9_StructurallyMalformedDatasetRejected ==
    [][\A file \in Files :
          Read(file) =>
             /\ (LacksColumn(file) \/ NotAnArray(file) \/ HasNonObjectElement(file))
                   => Rejected'
             /\ ~Rejected' =>
                   /\ error' = error
                   /\ Len(results') = Len(data')
                   /\ \A k \in DOMAIN data' :
                         /\ DOMAIN data'[k] = {"reference", "prediction"}
                         /\ IsText(data'[k].reference)
                         /\ IsText(data'[k].prediction)
                         /\ results'[k].totalWords
                               = Len(Tokenize(data'[k].reference, pageOptions))
                   /\ IsCSV(file) => Len(data') <= Len(CSVLines(file)) - 1
                   /\ IsJSON(file) => Len(data') = Len(file.content.json.v)]_vars

C9_Witness ==
    /\ error = "CSV must contain columns for reference and prediction"
    /\ data = <<>>
    /\ results = <<>>
    /\ ~showResults
    /\ pending # EmptyBag

\* C13: after any sequence of uploads and option changes, overlapping
\* uploads included, a displayed error never coexists with displayed
\* results: while error is not empty, showResults is false and data and
\* results are empty; and while showResults is true, results has one entry
\* per row of data.
C13_ErrorExcludesResults ==
    /\ error # "" => (~showResults /\ data = <<>> /\ results = <<>>)
    /\ showResults => Len(results) = Len(data)

====
